---- MODULE Spec2Model ----
(***************************************************************************)
(* The cell-annotation core of the price-parser TUI: PriceTable's          *)
(* cell_states store, its loader, the colour operations, the click         *)
(* selection and the JSON export, with the App's file-selection handler    *)
(* and the status bar's file field.                                        *)
(*                                                                         *)
(* Python values are rendered as follows.  Optional[T] is <<>> for None    *)
(* and <<x>> for a value x.  A dict is the sequence of its [key, value]    *)
(* entries in insertion order (the order Python iterates it in).  A        *)
(* coordinate (row, col) is the tuple <<row, col>>, 0-based as in the      *)
(* source.  PriceTable.last_clicked is written by on_click and read        *)
(* nowhere in the program; it is left out of the state.                    *)
(***************************************************************************)
EXTENDS Integers, Sequences, FiniteSets, TLC

VARIABLES cell_states, current_file, df, selected_cells, status_file, last

vars == <<cell_states, current_file, df, selected_cells, status_file, last>>

\* The store proper: what a failed load must leave alone.
store == <<cell_states, selected_cells, current_file>>

(***************************************************************************)
(* Bounds of the inputs.                                                   *)
(***************************************************************************)
\* Most data rows a CSV source has.
MaxRows == 1

\* The numbers of columns a CSV source may have.
ColCounts == {1, 2}

\* The colour arguments handed to the colour operations: any str is taken.
Colors == {"#FF0000", ""}

\* The files of the directory tree.
Paths ==
    { [stem |-> "a", suffix |-> ".csv"],
      [stem |-> "b", suffix |-> ".CSV"],
      [stem |-> "notes", suffix |-> ".txt"] }

\* Row and column indices the callers may address: every index of the
\* largest table and one beyond it.
RowIdx == 0..MaxRows
ColIdx == 0..1

None == <<>>
Some(x) == <<x>>

(***************************************************************************)
(* Python helpers.                                                         *)
(***************************************************************************)
\* range(lo, hi) as a sequence.
PyRange(lo, hi) == [i \in 1..(IF hi > lo THEN hi - lo ELSE 0) |-> lo + i - 1]

DictHas(d, k) == \E i \in 1..Len(d) : d[i].key = k

DictGet(d, k) == d[CHOOSE i \in 1..Len(d) : d[i].key = k].value

\* d[k] = v: an existing key keeps its place, a new key goes last.
DictSet(d, k, v) ==
    IF DictHas(d, k)
    THEN [i \in 1..Len(d) |-> IF d[i].key = k THEN [key |-> k, value |-> v] ELSE d[i]]
    ELSE Append(d, [key |-> k, value |-> v])

DictKeys(d) == {d[i].key : i \in 1..Len(d)}

\* str.lower() on the suffixes of Paths.
Lower(s) == IF s = ".CSV" THEN ".csv" ELSE s

\* Path.name
PathName(p) == p.stem \o p.suffix

(***************************************************************************)
(* The tabular source: what pd.read_csv makes of a file.  A value is       *)
(* <<kind, text>>; str(value) is the text, and "nan" for an empty cell.    *)
(***************************************************************************)
Values ==
    << <<"str", "Widget">>, <<"float", "9.99">>, <<"nan", "">>, <<"str", "Gadget">> >>

PyStr(v) == IF v[1] = "nan" THEN "nan" ELSE v[2]

Seed(p) == IF p.stem = "a" THEN 0 ELSE 1

\* The DataFrame read from file p when it holds nrows x ncols cells.
DataFrame(p, nrows, ncols) ==
    [ columns |-> ncols,
      rows    |-> [r \in 0..(nrows - 1) |->
                     [c \in 0..(ncols - 1) |->
                        Values[((Seed(p) + 2 * r + c) % Len(Values)) + 1]]] ]

NRows(frame) == Cardinality(DOMAIN frame.rows)

(***************************************************************************)
(* models/cell_state.py                                                    *)
(***************************************************************************)
CellPosition(row, column) == [row |-> row, column |-> column]

CellState(position, content, color) ==
    [position |-> position, content |-> content, color |-> color]

\* CellPosition.to_dict
position_to_dict(position) == [row |-> position.row, column |-> position.column]

\* CellState.to_dict
to_dict(state) ==
    [ position |-> position_to_dict(state.position),
      content  |-> state.content,
      color    |-> state.color ]

\* The truth value Python gives an Optional[str]: None and "" are false.
Truthy(color) == color # None /\ color[1] # ""

\* SelectionRange(start_row=..., start_col=..., end_row=..., end_col=...): a
\* pydantic model of four int fields and no validator.
SelectionRange(start_row, start_col, end_row, end_col) ==
    [ start_row |-> start_row, start_col |-> start_col,
      end_row   |-> end_row,   end_col   |-> end_col ]

\* The ranges the callers build: every rectangle over RowIdx x ColIdx, and one
\* range with start > end on each axis.
Ranges ==
    {SelectionRange(sr, sc, er, ec) :
        <<sr, sc, er, ec>> \in {q \in RowIdx \X ColIdx \X RowIdx \X ColIdx :
                                 q[1] <= q[3] /\ q[2] <= q[4]}}
      \cup {SelectionRange(1, 0, 0, 0), SelectionRange(0, 1, 0, 0)}

\* contains with the end row and the end column left out.
contains_HalfOpen(selection, row, col) ==
    /\ selection.start_row <= row /\ row < selection.end_row
    /\ selection.start_col <= col /\ col < selection.end_col

\* SelectionRange.contains
contains(selection, row, col) ==
    /\ selection.start_row <= row /\ row <= selection.end_row
    /\ selection.start_col <= col /\ col <= selection.end_col

\* The inner loop of get_cells: the cells of one row.
RowCells(row, cols) == [i \in 1..Len(cols) |-> <<row, cols[i]>>]

RECURSIVE CellsFrom(_, _, _, _)
\* The outer loop of get_cells, from the i-th row of rows on.
CellsFrom(cells, rows, cols, i) ==
    IF i > Len(rows)
    THEN cells
    ELSE CellsFrom(cells \o RowCells(rows[i], cols), rows, cols, i + 1)

\* get_cells with range(start, end): the end row and column left out.
get_cells_Exclusive(selection) ==
    CellsFrom(<<>>,
              PyRange(selection.start_row, selection.end_row),
              PyRange(selection.start_col, selection.end_col),
              1)

\* SelectionRange.get_cells
get_cells(selection) ==
    CellsFrom(<<>>,
              PyRange(selection.start_row, selection.end_row + 1),
              PyRange(selection.start_col, selection.end_col + 1),
              1)

(***************************************************************************)
(* widgets/price_table.py                                                  *)
(***************************************************************************)
\* load_csv, the body of the loop over the columns: the CellState of one cell
\* goes into cell_states under its (row_idx, col_idx).
StoreCell_Transposed(cs, row_idx, col_idx, value) ==
    DictSet(cs, <<col_idx, row_idx>>,
            CellState(CellPosition(row_idx, col_idx), PyStr(value), None))

StoreCell(cs, row_idx, col_idx, value) ==
    DictSet(cs, <<row_idx, col_idx>>,
            CellState(CellPosition(row_idx, col_idx), PyStr(value), None))

RECURSIVE InitRow(_, _, _, _)
\* load_csv, the loop over the columns of one row.
InitRow(cs, row_idx, row_data, col_idx) ==
    IF col_idx \notin DOMAIN row_data
    THEN cs
    ELSE InitRow(StoreCell(cs, row_idx, col_idx, row_data[col_idx]),
                 row_idx, row_data, col_idx + 1)

RECURSIVE InitRows(_, _, _, _)
\* load_csv, the loop over df.iterrows(): rows row_idx .. stop - 1.
InitRows(cs, frame, row_idx, stop) ==
    IF row_idx >= stop
    THEN cs
    ELSE InitRows(InitRow(cs, row_idx, frame.rows[row_idx], 0),
                  frame, row_idx + 1, stop)

\* Where the try block of load_csv may raise once pd.read_csv has returned the
\* frame: add_column, or add_row of data row `row`; "none" is the run that
\* reaches return True.
Faults(frame) ==
    {[at |-> a, row |-> 0] : a \in {"none", "add_column"}}
        \cup {[at |-> "add_row", row |-> r] : r \in DOMAIN frame.rows}

\* pd.read_csv raises: no frame.
ReadFault == [at |-> "read_csv", row |-> 0]

\* cell_states when load_csv leaves its try block.
LoadedCells(frame, fault) ==
    CASE fault.at = "add_column" -> <<>>
      [] fault.at = "add_row"    -> InitRows(<<>>, frame, 0, fault.row)
      [] OTHER                   -> InitRows(<<>>, frame, 0, NRows(frame))

\* The value load_csv returns.
LoadReturns(fault) == fault.at = "none"

\* load_csv without self.cell_states.clear().
load_csv_NoClear(filepath, frame, fault) ==
    IF fault.at = "read_csv"
    THEN UNCHANGED <<df, current_file, cell_states, selected_cells>>
    ELSE /\ df' = Some(frame)
         /\ current_file' = Some(filepath)
         /\ selected_cells' = {}
         /\ cell_states' = InitRows(cell_states, frame, 0,
                                    IF fault.at = "none" THEN NRows(frame) ELSE fault.row)

\* PriceTable.load_csv
load_csv(filepath, frame, fault) ==
    IF fault.at = "read_csv"
    THEN UNCHANGED <<df, current_file, cell_states, selected_cells>>
    ELSE /\ df' = Some(frame)
         /\ current_file' = Some(filepath)
         /\ selected_cells' = {}
         /\ cell_states' = LoadedCells(frame, fault)

\* PriceTable.get_cell_state on the dict cs
GetState(cs, row, col) ==
    IF DictHas(cs, <<row, col>>) THEN Some(DictGet(cs, <<row, col>>)) ELSE None

get_cell_state(row, col) == GetState(cell_states, row, col)

\* set_cell_color that keeps a colour already set.
SetColor_FirstWins(cs, row, col, color) ==
    IF DictHas(cs, <<row, col>>) /\ DictGet(cs, <<row, col>>).color = None
    THEN DictSet(cs, <<row, col>>,
                 [DictGet(cs, <<row, col>>) EXCEPT !.color = Some(color)])
    ELSE cs

\* set_cell_color that makes an entry for a coordinate the table lacks.
SetColor_Creates(cs, row, col, color) ==
    IF DictHas(cs, <<row, col>>)
    THEN DictSet(cs, <<row, col>>,
                 [DictGet(cs, <<row, col>>) EXCEPT !.color = Some(color)])
    ELSE DictSet(cs, <<row, col>>,
                 CellState(CellPosition(row, col), "", Some(color)))

\* set_cell_color that colours the whole row of the addressed cell.
SetColor_Row(cs, row, col, color) ==
    IF DictHas(cs, <<row, col>>)
    THEN [i \in 1..Len(cs) |->
            IF cs[i].key[1] = row
            THEN [cs[i] EXCEPT !.value.color = Some(color)]
            ELSE cs[i]]
    ELSE cs

\* set_cell_color that takes the entry out and puts the coloured one in anew,
\* at the end of the dict.
SetColor_Reinsert(cs, row, col, color) ==
    IF DictHas(cs, <<row, col>>)
    THEN Append(SelectSeq(cs, LAMBDA e : e.key # <<row, col>>),
                [key   |-> <<row, col>>,
                 value |-> [DictGet(cs, <<row, col>>) EXCEPT !.color = Some(color)]])
    ELSE cs

\* The body of PriceTable.set_cell_color on the dict cs.
SetColor(cs, row, col, color) ==
    IF DictHas(cs, <<row, col>>)
    THEN DictSet(cs, <<row, col>>,
                 [DictGet(cs, <<row, col>>) EXCEPT !.color = Some(color)])
    ELSE cs

RECURSIVE SetColors(_, _, _, _)
\* The loop of PriceTable.set_range_color, from the i-th cell on.
SetColors(cs, cells, color, i) ==
    IF i > Len(cells)
    THEN cs
    ELSE SetColors(SetColor(cs, cells[i][1], cells[i][2], color), cells, color, i + 1)

\* set_range_color that gives up on a range with a cell outside the table.
SetRangeColor_Strict(cs, selection, color) ==
    IF \A i \in 1..Len(get_cells(selection)) : DictHas(cs, get_cells(selection)[i])
    THEN SetColors(cs, get_cells(selection), color, 1)
    ELSE cs

\* The body of PriceTable.set_range_color on the dict cs.
SetRangeColor(cs, selection, color) == SetColors(cs, get_cells(selection), color, 1)

\* The cells list of export_to_json for the dict cs.
ExportCells(cs) == 
    LET marked == SelectSeq(cs, LAMBDA e : Truthy(e.value.color))
    IN  [i \in 1..Len(marked) |-> to_dict(marked[i].value)]

\* export_to_json that names the file only while the store holds cells.
export_to_json_StoreBased ==
    [ file  |-> IF current_file # None /\ Len(cell_states) > 0
                THEN Some(PathName(current_file[1])) ELSE None,
      cells |-> ExportCells(cell_states) ]

\* PriceTable.export_to_json
export_to_json ==
    [ file  |-> IF current_file # None THEN Some(PathName(current_file[1])) ELSE None,
      cells |-> ExportCells(cell_states) ]

(***************************************************************************)
(* The operations as steps.  `last` records the call just made: its name,  *)
(* its arguments, what it returned, and whether the store was in the       *)
(* situation of interest when the call was made.                           *)
(***************************************************************************)
Call(op, args, ret, prior) == [op |-> op, args |-> args, ret |-> ret, prior |-> prior]

Colored(cs) == {k \in DictKeys(cs) : DictGet(cs, k).color # None}

InFrame(frame, k) == k[1] \in DOMAIN frame.rows /\ k[2] \in 0..(frame.columns - 1)

\* The store holds colours, a selection and a cell the new table lacks.
Dirty(frame) ==
    /\ Colored(cell_states) # {}
    /\ selected_cells # {}
    /\ \E k \in DictKeys(cell_states) : ~InFrame(frame, k)

Init ==
    /\ cell_states = <<>>
    /\ current_file = None
    /\ df = None
    /\ selected_cells = {}
    /\ status_file = "No file loaded"
    /\ last = Call("init", <<>>, "None", FALSE)

\* PriceParserApp.on_directory_tree_file_selected on a CSV file.
FileSelected(file_path, frame, fault) ==
    /\ Lower(file_path.suffix) = ".csv"
    /\ load_csv(file_path, frame, fault)
    /\ status_file' = IF LoadReturns(fault) THEN PathName(file_path) ELSE status_file
    /\ last' = Call("load_csv", <<>>, IF LoadReturns(fault) THEN "True" ELSE "False",
                    Dirty(frame))

\* PriceParserApp.on_directory_tree_file_selected on any other file.
OtherFileSelected(file_path) ==
    /\ Lower(file_path.suffix) # ".csv"
    /\ last' = Call("not_csv", <<>>, "None", FALSE)
    /\ UNCHANGED <<cell_states, current_file, df, selected_cells, status_file>>

\* PriceTable.set_cell_color
set_cell_color(row, col, color) ==
    /\ cell_states' = SetColor(cell_states, row, col, color)
    /\ last' = Call("set_cell_color", <<row, col, color>>, "None",
                    /\ DictHas(cell_states, <<row, col>>)
                    /\ DictGet(cell_states, <<row, col>>).color \notin {None, Some(color)})
    /\ UNCHANGED <<current_file, df, selected_cells, status_file>>

\* PriceTable.set_range_color
set_range_color(selection, color) ==
    /\ cell_states' = SetRangeColor(cell_states, selection, color)
    /\ last' = Call("set_range_color", <<selection, color>>, "None", FALSE)
    /\ UNCHANGED <<current_file, df, selected_cells, status_file>>

\* on_click that only ever adds the clicked cell.
on_click_AddOnly(coordinate) ==
    /\ IF DictHas(cell_states, coordinate)
       THEN selected_cells' = selected_cells \cup {coordinate}
       ELSE UNCHANGED selected_cells
    /\ last' = Call("on_click", coordinate, "None", coordinate \in selected_cells)
    /\ UNCHANGED <<cell_states, current_file, df, status_file>>

\* PriceTable.on_click, which returns None.  coordinate_to_cell_key raises for
\* a coordinate that is no cell of the table, and the handler swallows it; the
\* cells of the table are those load_csv added.  `prior` is the membership of
\* the coordinate before the click.
on_click(coordinate) ==
    /\ IF DictHas(cell_states, coordinate)
       THEN selected_cells' = IF coordinate \in selected_cells
                              THEN selected_cells \ {coordinate}
                              ELSE selected_cells \cup {coordinate}
       ELSE UNCHANGED selected_cells
    /\ last' = Call("on_click", coordinate, "None", coordinate \in selected_cells)
    /\ UNCHANGED <<cell_states, current_file, df, status_file>>

\* A call of export_to_json that unmarks the cells it has exported.
Export_Consumes ==
    /\ last' = Call("export_to_json", <<>>, export_to_json, FALSE)
    /\ cell_states' = [i \in 1..Len(cell_states) |->
                          [cell_states[i] EXCEPT !.value.color = None]]
    /\ UNCHANGED <<current_file, df, selected_cells, status_file>>

\* A call of PriceTable.export_to_json: it returns the payload and assigns to
\* nothing.
Export ==
    /\ last' = Call("export_to_json", <<>>, export_to_json, FALSE)
    /\ UNCHANGED <<cell_states, current_file, df, selected_cells, status_file>>

\* PriceParserApp.action_export (and action_save, which calls it): without a
\* current file it only notifies; otherwise it writes the payload to
\* <stem>_parsed.json in the output directory.
action_export ==
    /\ last' = Call("action_export", <<>>,
                    IF current_file = None
                    THEN None
                    ELSE Some([output_file |-> current_file[1].stem \o "_parsed.json",
                               data        |-> export_to_json]),
                    FALSE)
    /\ UNCHANGED <<cell_states, current_file, df, selected_cells, status_file>>

Next ==
    \/ \E p \in Paths, nrows \in 0..MaxRows, ncols \in ColCounts :
         \E fault \in Faults(DataFrame(p, nrows, ncols)) :
            FileSelected(p, DataFrame(p, nrows, ncols), fault)
    \/ \E p \in Paths : FileSelected(p, DataFrame(p, 0, 1), ReadFault)
    \/ \E p \in Paths : OtherFileSelected(p)
    \/ \E row \in RowIdx, col \in ColIdx, color \in Colors :
         set_cell_color(row, col, color)
    \/ \E selection \in Ranges, color \in Colors : set_range_color(selection, color)
    \/ \E row \in RowIdx, col \in ColIdx : on_click(<<row, col>>)
    \/ Export
    \/ action_export

Spec == Init /\ [][Next]_vars

(***************************************************************************)
(* Properties.                                                             *)
(***************************************************************************)
\* Coordinates a query may name: those of RowIdx x ColIdx and the ones around.
GetRows == -1..MaxRows
GetCols == -1..2

\* The coordinates of a range, from its bounds alone.
Rect(selection) ==
    (selection.start_row..selection.end_row) \X (selection.start_col..selection.end_col)

WellFormed(selection) ==
    selection.start_row <= selection.end_row /\ selection.start_col <= selection.end_col

\* The coordinates that have a record in the export's cells list.
Exported ==
    {<<export_to_json.cells[i].position.row, export_to_json.cells[i].position.column>> :
        i \in 1..Len(export_to_json.cells)}

\* C1: the export holds a record for a coordinate if and only if the
\* CellState of that coordinate has a colour that is not None.
C1_ExportIffColorSet ==
    \A k \in DictKeys(cell_states) :
        k \in Exported <=> DictGet(cell_states, k).color # None

\* C2: a load that fails (load_csv returns False) leaves cell_states,
\* selected_cells and current_file exactly as they were before the call.
C2_FailedLoadKeepsStore ==
    [][(last'.op = "load_csv" /\ last'.ret = "False") => UNCHANGED store]_vars

\* get(row, col) is what a fresh load of frame puts there: the stringified
\* value with no colour inside the frame, nothing outside it.
FreshAt(cs, frame, row, col) ==
    IF InFrame(frame, <<row, col>>)
    THEN /\ GetState(cs, row, col) # None
         /\ GetState(cs, row, col)[1].content = PyStr(frame.rows[row][col])
         /\ GetState(cs, row, col)[1].color = None
    ELSE GetState(cs, row, col) = None

\* C3: after a successful load, get(r, c) returns for every coordinate of the
\* source a CellState with content rows[r][c] and no colour, and none for
\* every coordinate outside the source.
C3_LoadThenGet ==
    (last.op = "load_csv" /\ last.ret = "True") =>
        /\ df # None
        /\ \A row \in GetRows, col \in GetCols : FreshAt(cell_states, df[1], row, col)

C3_Witness ==
    /\ last.op = "load_csv" /\ last.ret = "True"
    /\ Len(cell_states) = 2
    /\ NRows(df[1]) = 1

\* C4: a successful load made when a file was already loaded leaves nothing
\* of the earlier table: every coordinate holds the new source's content with
\* no colour, the coordinates only the earlier table had return none, and the
\* selection is empty.
C4_ReloadResets ==
    [][(current_file # None /\ last'.op = "load_csv" /\ last'.ret = "True") =>
          /\ selected_cells' = {}
          /\ \A row \in GetRows, col \in GetCols :
                FreshAt(cell_states', df'[1], row, col)
          /\ \A k \in DictKeys(cell_states) :
                ~InFrame(df'[1], k) => GetState(cell_states', k[1], k[2]) = None
          /\ Len(cell_states') = NRows(df'[1]) * df'[1].columns
      ]_vars

C4_Witness ==
    /\ last.op = "load_csv" /\ last.ret = "True"
    /\ last.prior
    /\ Len(cell_states) > 0

\* C5: after set_color on a cell of the table, get returns the colour just
\* set, whatever colour the cell had before; after set_range_color the cells
\* of the table the range covers have the colour of that call.
C5_LastWriteWins ==
    /\ (last.op = "set_cell_color" /\ DictHas(cell_states, <<last.args[1], last.args[2]>>)) =>
          get_cell_state(last.args[1], last.args[2])[1].color = Some(last.args[3])
    /\ last.op = "set_range_color" =>
          \A k \in Rect(last.args[1]) \cap DictKeys(cell_states) :
              get_cell_state(k[1], k[2])[1].color = Some(last.args[2])

C5_Witness ==
    /\ last.op = "set_cell_color"
    /\ last.prior
    /\ Len(cell_states) = 2

\* The store after colouring exactly the cells of cs that lie in the range:
\* same keys in the same order, same contents.
Painted(cs, selection, color) ==
    [i \in 1..Len(cs) |->
        IF cs[i].key \in Rect(selection)
        THEN [cs[i] EXCEPT !.value.color = Some(color)]
        ELSE cs[i]]

\* C6: for a range inside the table, set_range_color leaves the store as
\* set_color on each cell of the rectangle would: exactly the cells of the
\* rectangle have the colour and every other cell is unchanged.
C6_RangeInside ==
    [][( /\ last'.op = "set_range_color"
         /\ WellFormed(last'.args[1])
         /\ Rect(last'.args[1]) \subseteq DictKeys(cell_states) ) =>
            cell_states' = Painted(cell_states, last'.args[1], last'.args[2])
      ]_vars

C6_Witness ==
    /\ last.op = "set_range_color"
    /\ WellFormed(last.args[1])
    /\ Rect(last.args[1]) \subseteq DictKeys(cell_states)
    /\ DictKeys(cell_states) \ Rect(last.args[1]) # {}
    /\ Colored(cell_states) = Rect(last.args[1])

\* C7: set_color on a coordinate that is no cell of the table changes
\* nothing: no entry appears, get still returns none there, every cell and
\* the export payload are as before.
C7_SetOutsideNoOp ==
    [][( /\ last'.op = "set_cell_color"
         /\ ~DictHas(cell_states, <<last'.args[1], last'.args[2]>>) ) =>
            /\ GetState(cell_states', last'.args[1], last'.args[2]) = None
            /\ cell_states' = cell_states
            /\ export_to_json' = export_to_json
            /\ UNCHANGED <<selected_cells, current_file, df, status_file>>
      ]_vars

C7_Witness ==
    /\ last.op = "set_cell_color"
    /\ ~DictHas(cell_states, <<last.args[1], last.args[2]>>)
    /\ Colored(cell_states) # {}

\* C8: a range that lies partly or wholly outside the table colours exactly
\* the cells of the table inside it and creates no entry for the others.
C8_RangeClipped ==
    [][( /\ last'.op = "set_range_color"
         /\ WellFormed(last'.args[1])
         /\ ~(Rect(last'.args[1]) \subseteq DictKeys(cell_states)) ) =>
            /\ cell_states' = Painted(cell_states, last'.args[1], last'.args[2])
            /\ DictKeys(cell_states') = DictKeys(cell_states)
      ]_vars

C8_Witness ==
    /\ last.op = "set_range_color"
    /\ WellFormed(last.args[1])
    /\ Rect(last.args[1]) \cap DictKeys(cell_states) # {}
    /\ Rect(last.args[1]) \ DictKeys(cell_states) # {}
    /\ DictKeys(cell_states) \ Rect(last.args[1]) # {}
    /\ Colored(cell_states) = Rect(last.args[1]) \cap DictKeys(cell_states)

\* C9: no Range with start_row > end_row or start_col > end_col exists, so
\* set_range_color never runs on a range whose cells() is empty.
C9_MalformedRangeRejected ==
    last.op = "set_range_color" => WellFormed(last.args[1])

\* A step, not a load, that sets the colour of cell k back to None and
\* changes nothing else of the store.
ClearStep(k) ==
    /\ Next
    /\ last'.op # "load_csv"
    /\ cell_states' = DictSet(cell_states, k, [DictGet(cell_states, k) EXCEPT !.color = None])
    /\ UNCHANGED <<selected_cells, current_file, df, status_file>>

\* C10: a coloured cell can be cleared: the table has an operation that sets
\* the colour of that cell back to unset, after which get returns no colour
\* and the export leaves the cell out.
C10_ClearColor ==
    \A k \in Colored(cell_states) : ENABLED ClearStep(k)

C12_ExportPure ==
    [][last'.op = "export_to_json" =>
          /\ UNCHANGED <<cell_states, selected_cells, current_file, df, status_file>>
          /\ last'.ret = export_to_json'
          /\ last.op = "export_to_json" => last'.ret = last.ret
      ]_vars

C12_Witness ==
    /\ last.op = "export_to_json"
    /\ Len(last.ret.cells) > 0
    /\ last.ret.file # None
    /\ \E i \in 1..Len(cell_states) : cell_states[i].value.color = None

\* C13 as claimed: whenever the store holds no cells, export yields an empty
\* cells sequence and file = none.
C13_EmptyStoreNoFile ==
    Len(cell_states) = 0 =>
        /\ export_to_json.cells = <<>>
        /\ export_to_json.file = None

\* C13: whenever the store holds no cells, export yields an empty cells
\* sequence, and its file is none exactly when current_file is none; after a
\* load of a file without data rows the file is that file's name.
C13_EmptyStoreExport ==
    Len(cell_states) = 0 =>
        /\ export_to_json.cells = <<>>
        /\ export_to_json.file = None <=> current_file = None
        /\ current_file # None => export_to_json.file = Some(PathName(current_file[1]))
        /\ last.op = "export_to_json" => last.ret = export_to_json

C13_Witness ==
    /\ Len(cell_states) = 0
    /\ current_file # None
    /\ df # None /\ NRows(df[1]) = 0
    /\ last.op = "export_to_json"
    /\ last.ret.file # None

\* The step into the next state may replace the colour of the cell at k: it is
\* a load, a set_cell_color of k, or a set_range_color whose range holds k.
Covers(k) ==
    \/ last'.op = "load_csv"
    \/ last'.op = "set_cell_color" /\ <<last'.args[1], last'.args[2]>> = k
    \/ last'.op = "set_range_color" /\ k \in Rect(last'.args[1])

\* C14: a colour that is set stays as it is across every step that is not a
\* load nor a colouring that covers the cell (clicks, exports, selections of
\* other files, colourings of other coordinates), and a click leaves the
\* export payload as it was.
C14_ColorPersists ==
    [][ /\ \A i \in 1..Len(cell_states) :
              (cell_states[i].value.color # None /\ ~Covers(cell_states[i].key)) =>
                  /\ DictHas(cell_states', cell_states[i].key)
                  /\ DictGet(cell_states', cell_states[i].key).color
                        = cell_states[i].value.color
        /\ last'.op = "on_click" => export_to_json' = export_to_json
      ]_vars

C14_Witness ==
    /\ last.op = "set_cell_color"
    /\ last.args = <<0, 1, "#FF0000">>
    /\ DictHas(cell_states, <<0, 0>>) /\ DictHas(cell_states, <<0, 1>>)
    /\ DictGet(cell_states, <<0, 0>>).color = Some("")
    /\ DictGet(cell_states, <<0, 1>>).color = Some("#FF0000")
    /\ selected_cells # {}

\* C15: the store has at most one CellState per coordinate, every key equals
\* the position of its CellState, a successful load makes the key set the
\* rows x columns rectangle of the file, and every other step (a failed load
\* among them) adds no entry, removes none and changes no content.
C15_ShapeFixed ==
    [][ /\ \A i, j \in 1..Len(cell_states') :
              cell_states'[i].key = cell_states'[j].key => i = j
        /\ \A i \in 1..Len(cell_states') :
              cell_states'[i].key = << cell_states'[i].value.position.row,
                                       cell_states'[i].value.position.column >>
        /\ IF last'.op = "load_csv" /\ last'.ret = "True"
           THEN DictKeys(cell_states')
                    = (0..(NRows(df'[1]) - 1)) \X (0..(df'[1].columns - 1))
           ELSE /\ Len(cell_states') = Len(cell_states)
                /\ \A i \in 1..Len(cell_states) :
                      /\ cell_states'[i].key = cell_states[i].key
                      /\ cell_states'[i].value.content = cell_states[i].value.content
      ]_vars

C17_CellsRowMajor ==
    last.op = "set_range_color" =>
        LET selection == last.args[1]
            cells     == get_cells(selection)
        IN  /\ Len(cells) = Cardinality(Rect(selection))
            /\ {cells[i] : i \in 1..Len(cells)} = Rect(selection)
            /\ \A i, j \in 1..Len(cells) :
                  i < j => \/ cells[i][1] < cells[j][1]
                           \/ cells[i][1] = cells[j][1] /\ cells[i][2] < cells[j][2]
            /\ \A r \in GetRows, c \in GetCols :
                  (\E i \in 1..Len(cells) : cells[i] = <<r, c>>)
                      <=> contains(selection, r, c)

C17_Witness ==
    /\ last.op = "set_range_color"
    /\ Len(get_cells(last.args[1])) = 4
    /\ get_cells(last.args[1])[2] = <<0, 1>>
    /\ get_cells(last.args[1])[3] = <<1, 0>>

\* C18: after any sequence of file selections the status bar shows the name
\* of the table's current_file, the file the export payload and the output
\* filename come from, and 'No file loaded' exactly when current_file is None.
C18_StatusBarNamesCurrentFile ==
    /\ status_file = IF current_file = None
                     THEN "No file loaded"
                     ELSE PathName(current_file[1])
    /\ status_file = "No file loaded" <=> current_file = None
    /\ (last.op = "action_export" /\ last.ret # None) =>
           /\ last.ret[1].data.file = Some(status_file)
           /\ last.ret[1].output_file = current_file[1].stem \o "_parsed.json"

====
